---- MODULE Spec2Model ----
(***************************************************************************)
(* A model of the cdn package: the image transcoding pipeline              *)
(* (cdn/image_utils.py), the Bunny CDN calls (cdn/bunny.py) and the        *)
(* record helpers built on both (cdn/helpers.py).                          *)
(*                                                                         *)
(* Python strings are sequences of tokens, so that "" is <<>> and          *)
(* str.upper is computed character by character.  An Optional[int] is the  *)
(* empty sequence (None) or a one-element sequence.                        *)
(***************************************************************************)
EXTENDS Integers, Sequences, FiniteSets, TLC

VARIABLES
    sel,        \* one call of _choose_output_format: [mode, want, out]
    cpc,        \* compress_image: position in the function
    args,       \* compress_image: file_obj and keyword arguments
    img,        \* compress_image: local img
    new_size,   \* compress_image: local new_size (<<>> until line 66 runs)
    fmt,        \* compress_image: local fmt
    ext,        \* compress_image: local ext
    out,        \* compress_image: what img.save was handed and wrote
    cret,       \* compress_image: the return value or the exception raised
    stages,     \* compress_image: the statements executed so far, in order
    settings,   \* django.conf.settings: which BUNNY_* values are set
    ppc,        \* purge_cache: position in the function
    urls,       \* purge_cache: argument urls
    idx,        \* purge_cache: index of the next url of the for loop
    success,    \* purge_cache: local success
    failed,     \* purge_cache: local failed
    resp,       \* purge_cache: what each loop iteration met, in order
    pret,       \* purge_cache: the returned dict (<<>> before the return)
    upc,        \* update_image_in_bunny: position in the helper
    instance,   \* the model instance's public-id and URL attributes
    db,         \* the saved record: the fields instance.save last wrote
    storage,    \* the storage zone: the set of paths holding an object
    old,        \* update_image_in_bunny: locals old_public_id, old_url
    res         \* upload_image_to_bunny: its return value (<<>> before)

cvars == <<cpc, args, img, new_size, fmt, ext, out, cret, stages>>
pvars == <<ppc, urls, idx, success, failed, resp, pret>>
uvars == <<upc, instance, db, storage, old, res>>
vars  == <<sel, cvars, settings, pvars, uvars>>

---------------------------------------------------------------------------
(* Bounds of the model.                                                    *)

\* Largest image width and height, and largest max_width, that are tried.
MaxDim == 4
\* Longest list of URLs handed to purge_cache.
MaxUrls == 3

---------------------------------------------------------------------------
(* Strings.                                                                *)

WEBP == <<"W", "E", "B", "P">>
JPEG == <<"J", "P", "E", "G">>
PNG  == <<"P", "N", "G">>

\* str.upper on one character of the alphabet the requests are written in.
UpperChar(c) ==
    CASE c = "j" -> "J" [] c = "p" -> "P" [] c = "e" -> "E" [] c = "g" -> "G"
      [] c = "w" -> "W" [] c = "b" -> "B" [] c = "n" -> "N" [] c = "i" -> "I"
      [] c = "f" -> "F" [] OTHER -> c

Upper(s) == [i \in DOMAIN s |-> UpperChar(s[i])]

\* Python truthiness of a str or of None.
None == <<"None">>
Truthy(s) == s # None /\ s # <<>>

\* Python truthiness of an Optional[int].
TruthyInt(n) == n # <<>> /\ n[1] # 0

---------------------------------------------------------------------------
(* cdn/image_utils.py                                                      *)

SUPPORTED_OUTPUTS == {WEBP, JPEG}

\* Mutant: the request is compared as written, without .upper().
choose_output_format_cased(src_mode, want) ==
    LET has_alpha == src_mode \in {"RGBA", "LA", "P"}
    IN  IF want = JPEG /\ has_alpha THEN <<WEBP, ".webp">>
        ELSE IF want \notin SUPPORTED_OUTPUTS THEN <<WEBP, ".webp">>
        ELSE IF want = JPEG THEN <<JPEG, ".jpg">>
        ELSE <<WEBP, ".webp">>

\* Mutant: only RGBA counts as having alpha.
choose_output_format_rgba_only(src_mode, want) ==
    LET has_alpha == src_mode = "RGBA"
    IN  IF Upper(want) = JPEG /\ has_alpha THEN <<WEBP, ".webp">>
        ELSE IF Upper(want) \notin SUPPORTED_OUTPUTS THEN <<WEBP, ".webp">>
        ELSE IF Upper(want) = JPEG THEN <<JPEG, ".jpg">>
        ELSE <<WEBP, ".webp">>

\* Lines 20-28.
choose_output_format(src_mode, want) ==
    LET has_alpha == src_mode \in {"RGBA", "LA", "P"}
    IN  IF Upper(want) = JPEG /\ has_alpha THEN <<WEBP, ".webp">>
        ELSE IF Upper(want) \notin SUPPORTED_OUTPUTS THEN <<WEBP, ".webp">>
        ELSE IF Upper(want) = JPEG THEN <<JPEG, ".jpg">>
        ELSE <<WEBP, ".webp">>

\* The inputs of compress_image that are tried.
SrcKinds  == {"valid", "malformed", "truncated"}
Modes     == {"RGB", "RGBA", "LA", "P", "L", "CMYK"}
Wants     == {WEBP, JPEG, <<"j", "p", "e", "g">>, PNG}
Qualities == {0, 1, 100, 101}
MaxWidths == {<<>>} \cup {<<n>> : n \in -1..MaxDim}
\* EXIF orientation tags: 1 upright, 6 rotated by 90 (width and height swap).
Orientations == {1, 6}

NoImg == [mode |-> "", width |-> 0, height |-> 0, orientation |-> 1,
          info |-> {}]
NoOut == [fmt |-> <<>>, mode |-> "", width |-> 0, height |-> 0,
          quality |-> 0, info |-> {}]
NoRet == [kind |-> "none", content_type |-> "", ext |-> ""]

\* The call: the locals before the first statement.
CompressEntry(a) ==
    /\ cpc' = "validate"
    /\ args' = a
    /\ img' = NoImg
    /\ new_size' = <<>>
    /\ fmt' = <<>>
    /\ ext' = ""
    /\ out' = NoOut
    /\ cret' = NoRet
    /\ stages' = <<>>

\* raise: the function is left with an exception and no value.
Raise(kind) ==
    /\ cpc' = "raised"
    /\ cret' = [kind |-> kind, content_type |-> "", ext |-> ""]

\* Mutant: the lower limit of quality is off by one.
QualityRejected_lax(quality) == quality < 0 \/ quality > 100

\* Line 40.
QualityRejected(quality) == quality < 1 \/ quality > 100

\* Line 43.
MaxWidthRejected(max_width) == max_width # <<>> /\ max_width[1] < 1

\* Lines 40-44: the parameter checks, outside both try blocks.
Validate ==
    /\ cpc = "validate"
    /\ stages' = Append(stages, "validate")
    /\ IF QualityRejected(args.quality) \/ MaxWidthRejected(args.max_width)
       THEN Raise("ValueError")
       ELSE cpc' = "open" /\ cret' = cret
    /\ UNCHANGED <<args, img, new_size, fmt, ext, out>>

\* Image.open identifies the container from its header and reads no pixel
\* data: bytes that are no image are refused here, bytes whose header is
\* whole and whose pixel data is cut short are not.
OpenFails(src) == src = "malformed"

\* Lines 46-54: the first try block.
Open ==
    /\ cpc = "open"
    /\ stages' = Append(stages, "open")
    /\ IF OpenFails(args.src)
       THEN Raise("IOError: Cannot open image file") /\ img' = img
       ELSE /\ cpc' = "transpose"
            /\ cret' = cret
            /\ img' = [mode |-> args.mode, width |-> args.width,
                       height |-> args.height,
                       orientation |-> args.orientation,
                       info |-> {"exif", "icc_profile"}]
    /\ UNCHANGED <<args, new_size, fmt, ext, out>>

\* ImageOps.exif_transpose: a transposed copy, without the orientation tag.
\* Tags 5 to 8 exchange width and height.
ExifTranspose(im) ==
    IF im.orientation \in 5..8
    THEN [im EXCEPT !.width = im.height, !.height = im.width,
                    !.orientation = 1]
    ELSE [im EXCEPT !.orientation = 1]

\* Line 57.  The copy reads the pixel data, which is where a source whose
\* data is cut short fails: inside the second try block.
Transpose ==
    /\ cpc = "transpose"
    /\ stages' = Append(stages, "transpose")
    /\ IF args.src = "truncated"
       THEN Raise("IOError: Image compression failed") /\ img' = img
       ELSE cpc' = "convert_palette" /\ cret' = cret /\ img' = ExifTranspose(img)
    /\ UNCHANGED <<args, new_size, fmt, ext, out>>

\* Lines 60-61.
ConvertPalette ==
    /\ cpc = "convert_palette"
    /\ stages' = Append(stages, "convert_palette")
    /\ img' = IF img.mode = "P" THEN [img EXCEPT !.mode = "RGBA"] ELSE img
    /\ cpc' = "resize"
    /\ UNCHANGED <<args, new_size, fmt, ext, out, cret>>

\* Mutant: the width is not compared with max_width.
ResizeNeeded_any(max_width, width) == TruthyInt(max_width)

\* Line 64: the condition of the resize.
ResizeNeeded(max_width, width) == TruthyInt(max_width) /\ width > max_width[1]

\* Lines 65-66: ratio = max_width / float(width); int(height * ratio).
\* int() truncates; for the sizes tried the float product truncates to the
\* exact quotient.
NewSize(max_width, width, height) ==
    <<max_width[1], (height * max_width[1]) \div width>>

\* Lines 64-68.  Image.resize refuses a size with a zero side.
Resize ==
    /\ cpc = "resize"
    /\ stages' = Append(stages, "resize")
    /\ IF ResizeNeeded(args.max_width, img.width)
       THEN LET size == NewSize(args.max_width, img.width, img.height)
            IN  /\ new_size' = size
                /\ IF size[1] < 1 \/ size[2] < 1
                   THEN Raise("IOError: Image compression failed") /\ img' = img
                   ELSE /\ img' = [img EXCEPT !.width = size[1],
                                              !.height = size[2]]
                        /\ cpc' = "choose_format"
                        /\ cret' = cret
       ELSE cpc' = "choose_format" /\ UNCHANGED <<new_size, img, cret>>
    /\ UNCHANGED <<args, fmt, ext, out>>

\* Line 71.
ChooseFormat ==
    /\ cpc = "choose_format"
    /\ stages' = Append(stages, "choose_format")
    /\ fmt' = choose_output_format(img.mode, args.output_format)[1]
    /\ ext' = choose_output_format(img.mode, args.output_format)[2]
    /\ cpc' = "flatten"
    /\ UNCHANGED <<args, img, new_size, out, cret>>

\* Mutant: only buffers with alpha are converted for JPEG.
FlattenMode_alpha_only(f, mode) ==
    IF f = JPEG /\ mode \in {"RGBA", "LA"} THEN "RGB" ELSE mode

\* Lines 74-80: the mode of the buffer handed to the encoder.
FlattenMode(f, mode) ==
    IF f = JPEG /\ mode \in {"RGBA", "LA"} THEN "RGB"
    ELSE IF f = JPEG /\ mode # "RGB" THEN "RGB"
    ELSE mode

\* Lines 74-80.
Flatten ==
    /\ cpc = "flatten"
    /\ stages' = Append(stages, "flatten")
    /\ img' = [img EXCEPT !.mode = FlattenMode(fmt, img.mode)]
    /\ cpc' = "encode"
    /\ UNCHANGED <<args, new_size, fmt, ext, out, cret>>

\* Lines 92-94.
StripInfo(info, strip_metadata) ==
    IF strip_metadata THEN info \ {"exif", "icc_profile"} ELSE info

\* Lines 83-98: img.save.
Encode ==
    /\ cpc = "encode"
    /\ stages' = Append(stages, "encode")
    /\ img' = [img EXCEPT !.info = StripInfo(img.info, args.strip_metadata)]
    /\ out' = [fmt |-> fmt, mode |-> img.mode, width |-> img.width,
               height |-> img.height, quality |-> args.quality,
               info |-> StripInfo(img.info, args.strip_metadata)]
    /\ cpc' = "return"
    /\ UNCHANGED <<args, new_size, fmt, ext, cret>>

\* Mutant: the test of the content type is inverted.
ContentType_inverted(f) == IF f = JPEG THEN "image/webp" ELSE "image/jpeg"

\* Line 109.
ContentType(f) == IF f = WEBP THEN "image/webp" ELSE "image/jpeg"

\* Lines 109-110.
Return ==
    /\ cpc = "return"
    /\ cret' = [kind |-> "ok", content_type |-> ContentType(fmt), ext |-> ext]
    /\ cpc' = "returned"
    /\ UNCHANGED <<args, img, new_size, fmt, ext, out, stages>>

---------------------------------------------------------------------------
(* cdn/bunny.py                                                            *)

\* f"{folder}/{base_name}{extension}"
Path(folder, base_name, extension) == <<folder, "/", base_name, extension>>

\* Lines 83-87: the CDN URL of a path, with the optimizer's query string
\* when BUNNY_OPTIMIZER_DEFAULTS is set.
CdnUrl(path) ==
    <<"BUNNY_CDN_BASE_URL/">> \o path
        \o (IF settings.optimizer_defaults THEN <<"?", "qs">> ELSE <<>>)

Settings == [zone_id : BOOLEAN, api_key : BOOLEAN,
             purge_on_overwrite : BOOLEAN, optimizer_defaults : BOOLEAN]

NoPret == [success |-> <<>>, failed |-> <<>>]

\* The call of purge_cache: the locals before the first statement.
PurgeEntry(u) ==
    /\ ppc' = "check"
    /\ urls' = u
    /\ idx' = 1
    /\ success' = <<>>
    /\ failed' = <<>>
    /\ resp' = <<>>
    /\ pret' = NoPret

\* Lines 114-130: the early returns.
PurgeCheck ==
    /\ ppc = "check"
    /\ IF urls = <<>>
       THEN ppc' = "returned" /\ pret' = [success |-> <<>>, failed |-> <<>>]
       ELSE IF ~settings.zone_id \/ ~settings.api_key
       THEN ppc' = "returned" /\ pret' = [success |-> <<>>, failed |-> urls]
       ELSE ppc' = "loop" /\ pret' = pret
    /\ UNCHANGED <<urls, idx, success, failed, resp>>

\* What one POST to the purge API can end in.
Outcomes == {"ok", "RequestException", "Exception"}

\* Mutant: only a RequestException is recorded as a failure.
Recorded_lost(outcome, url) ==
    IF outcome = "ok" THEN <<Append(success, url), failed>>
    ELSE IF outcome = "RequestException" THEN <<success, Append(failed, url)>>
    ELSE <<success, failed>>

\* Lines 136-146: the lists after the request for url ended in outcome.
Recorded(outcome, url) ==
    IF outcome = "ok"
    THEN <<Append(success, url), failed>>
    ELSE <<success, Append(failed, url)>>

\* Lines 132-146: one iteration of the for loop.
PurgeIter ==
    /\ ppc = "loop"
    /\ idx <= Len(urls)
    /\ IF ~Truthy(urls[idx])
       THEN /\ resp' = Append(resp, "skipped")
            /\ UNCHANGED <<success, failed>>
       ELSE \E outcome \in Outcomes :
            /\ resp' = Append(resp, outcome)
            /\ success' = Recorded(outcome, urls[idx])[1]
            /\ failed' = Recorded(outcome, urls[idx])[2]
    /\ idx' = idx + 1
    /\ UNCHANGED <<ppc, urls, pret>>

\* Line 148.
PurgeReturn ==
    /\ ppc = "loop"
    /\ idx > Len(urls)
    /\ pret' = [success |-> success, failed |-> failed]
    /\ ppc' = "returned"
    /\ UNCHANGED <<urls, idx, success, failed, resp>>

---------------------------------------------------------------------------
(* cdn/helpers.py                                                          *)

\* The caller's folder and base name, and the records that are tried.
Folder   == "avatars"
BaseName == "u1"
OldPaths == {Path(Folder, BaseName, ".webp"), Path(Folder, "u0", ".jpg")}

NoRes == [public_id |-> None, secure_url |-> None, url |-> None]

\* The image files and options update_image_in_bunny is tried with.
UpdArgs ==
    [src : SrcKinds, mode : Modes, width : {MaxDim}, height : {1, MaxDim},
     orientation : {1}, max_width : {<<>>, <<0>>, <<2>>},
     quality : {0, 75}, output_format : {WEBP}, strip_metadata : {TRUE}]

\* Lines 96-100.
UpdStart ==
    /\ upc = "start"
    /\ old' = [public_id |-> instance.public_id, url |-> instance.url]
    /\ upc' = IF Truthy(instance.public_id) THEN "delete" ELSE "upload"
    /\ UNCHANGED <<instance, db, storage, res>>
    /\ UNCHANGED <<sel, cvars, settings, pvars>>

\* bunny.delete, lines 91-110: the object is gone when the DELETE succeeds.
Deleted(path, ok) == IF ok THEN storage \ {path} ELSE storage

\* delete_image_from_bunny, lines 60-80, up to the call of purge_cache.
DeleteImage ==
    /\ upc = "delete"
    /\ IF ~Truthy(old.public_id)
       THEN upc' = "upload" /\ UNCHANGED <<storage, pvars>>
       ELSE \E ok \in BOOLEAN :
            /\ storage' = Deleted(old.public_id, ok)
            /\ IF ok /\ Truthy(old.url) /\ settings.purge_on_overwrite
               THEN upc' = "purging" /\ PurgeEntry(<<old.url>>)
               ELSE upc' = "upload" /\ UNCHANGED pvars
    /\ UNCHANGED <<instance, db, old, res>>
    /\ UNCHANGED <<sel, cvars, settings>>

\* delete_image_from_bunny, lines 73-76: purge_cache has returned.
AfterPurge ==
    /\ upc = "purging"
    /\ ppc = "returned"
    /\ upc' = "upload"
    /\ UNCHANGED <<instance, db, storage, old, res>>
    /\ UNCHANGED <<sel, cvars, settings, pvars>>

\* update_image_in_bunny line 103, upload_image_to_bunny lines 24-29.
UploadCall ==
    /\ upc = "upload"
    /\ \E a \in UpdArgs : CompressEntry(a)
    /\ upc' = "compressing"
    /\ UNCHANGED <<instance, db, storage, old, res>>
    /\ UNCHANGED <<sel, settings, pvars>>

\* bunny.upload_bytes, lines 66-89: the object is there when the PUT
\* succeeds.
Stored(path, ok) == IF ok THEN storage \cup {path} ELSE storage

\* upload_image_to_bunny, lines 31-51: compress_image has returned or
\* raised; every exception leaves as a ValidationError.
UploadBytes ==
    /\ upc = "compressing"
    /\ cpc \in {"returned", "raised"}
    /\ IF cpc = "raised"
       THEN upc' = "raised" /\ UNCHANGED <<storage, res>>
       ELSE \E ok \in BOOLEAN :
            LET path == Path(Folder, BaseName, cret.ext)
            IN  /\ storage' = Stored(path, ok)
                /\ IF ok
                   THEN /\ upc' = "set"
                        /\ res' = [public_id |-> path,
                                   secure_url |-> CdnUrl(path),
                                   url |-> CdnUrl(path)]
                   ELSE upc' = "raised" /\ res' = res
    /\ UNCHANGED <<instance, db, old>>
    /\ UNCHANGED <<sel, cvars, settings, pvars>>

\* Lines 112-114: the fields are set and saved.
UpdSet ==
    /\ upc = "set"
    /\ instance' = [public_id |-> res.public_id,
                    url |-> IF Truthy(res.secure_url) THEN res.secure_url
                            ELSE res.url]
    /\ db' = instance'
    /\ upc' = "done"
    /\ UNCHANGED <<storage, old, res>>
    /\ UNCHANGED <<sel, cvars, settings, pvars>>

---------------------------------------------------------------------------
(* Specifications.                                                         *)

\* A step of compress_image, or of purge_cache, changes nothing else.
OnlyCompress == UNCHANGED <<sel, settings, pvars, uvars>>
OnlyPurge == UNCHANGED <<sel, cvars, settings, uvars>>

CompressIdle ==
    /\ cpc = "idle"
    /\ args = [src |-> "valid", mode |-> "RGB", width |-> 1, height |-> 1,
               orientation |-> 1, max_width |-> <<>>, quality |-> 75,
               output_format |-> WEBP, strip_metadata |-> TRUE]
    /\ img = NoImg
    /\ new_size = <<>>
    /\ fmt = <<>>
    /\ ext = ""
    /\ out = NoOut
    /\ cret = NoRet
    /\ stages = <<>>

PurgeIdle ==
    /\ ppc = "idle"
    /\ urls = <<>>
    /\ idx = 1
    /\ success = <<>>
    /\ failed = <<>>
    /\ resp = <<>>
    /\ pret = NoPret

UpdateIdle ==
    /\ upc = "idle"
    /\ instance = [public_id |-> None, url |-> None]
    /\ db = [public_id |-> None, url |-> None]
    /\ storage = {}
    /\ old = [public_id |-> None, url |-> None]
    /\ res = NoRes

SelectIdle == sel = [mode |-> "", want |-> <<>>, out |-> <<>>]

DefaultSettings == [zone_id |-> TRUE, api_key |-> TRUE,
                    purge_on_overwrite |-> TRUE, optimizer_defaults |-> FALSE]

\* compress_image called with every combination of the inputs.
CompressArgs ==
    [src : SrcKinds, mode : Modes, width : 1..MaxDim, height : 1..MaxDim,
     orientation : Orientations, max_width : MaxWidths, quality : Qualities,
     output_format : Wants, strip_metadata : BOOLEAN]

CallCompress ==
    /\ cpc = "idle"
    /\ \E a \in CompressArgs : CompressEntry(a)
    /\ UNCHANGED <<sel, settings, pvars, uvars>>

Init ==
    /\ CompressIdle /\ PurgeIdle /\ UpdateIdle /\ SelectIdle
    /\ settings = DefaultSettings

Next ==
    \/ CallCompress
    \/ Validate /\ OnlyCompress
    \/ Open /\ OnlyCompress
    \/ Transpose /\ OnlyCompress
    \/ ConvertPalette /\ OnlyCompress
    \/ Resize /\ OnlyCompress
    \/ ChooseFormat /\ OnlyCompress
    \/ Flatten /\ OnlyCompress
    \/ Encode /\ OnlyCompress
    \/ Return /\ OnlyCompress

Spec == Init /\ [][Next]_vars

\* _choose_output_format called on its own.
SelectModes == Modes \cup {"1", "PA"}
SelectWants == Wants \cup {<<"w", "e", "b", "p">>, <<"J", "p", "e", "g">>,
                           <<"p", "n", "g">>, <<"G", "I", "F">>, <<>>}

InitSelect ==
    /\ CompressIdle /\ PurgeIdle /\ UpdateIdle
    /\ settings = DefaultSettings
    /\ sel \in [mode : SelectModes, want : SelectWants, out : {<<>>}]

SelectFormat ==
    /\ sel.out = <<>>
    /\ sel' = [sel EXCEPT !.out = choose_output_format(sel.mode, sel.want)]
    /\ UNCHANGED <<cvars, settings, pvars, uvars>>

NextSelect == SelectFormat

SpecSelect == InitSelect /\ [][NextSelect]_vars

\* purge_cache called with every list of URLs.
PurgeUrls == {<<>>, CdnUrl(Path(Folder, BaseName, ".webp")),
              CdnUrl(Path(Folder, "u0", ".jpg"))}

UrlLists == UNION {[1..n -> PurgeUrls] : n \in 0..MaxUrls}

InitPurge ==
    /\ CompressIdle /\ PurgeIdle /\ UpdateIdle /\ SelectIdle
    /\ settings \in Settings

CallPurge ==
    /\ ppc = "idle"
    /\ \E u \in UrlLists : PurgeEntry(u)
    /\ UNCHANGED <<sel, cvars, settings, uvars>>

NextPurge ==
    \/ CallPurge
    \/ PurgeCheck /\ OnlyPurge
    \/ PurgeIter /\ OnlyPurge
    \/ PurgeReturn /\ OnlyPurge

SpecPurge == InitPurge /\ [][NextPurge]_vars

\* update_image_in_bunny called on a saved record whose image, when it has
\* one, is in storage.
InitUpdate ==
    /\ CompressIdle /\ PurgeIdle /\ SelectIdle
    /\ settings \in Settings
    /\ upc = "start"
    /\ \/ instance = [public_id |-> None, url |-> None] /\ storage = {}
       \/ \E p \in OldPaths :
            /\ instance = [public_id |-> p, url |-> CdnUrl(p)]
            /\ storage = {p}
    /\ db = instance
    /\ old = [public_id |-> None, url |-> None]
    /\ res = NoRes

NextUpdate ==
    \/ UpdStart
    \/ DeleteImage
    \/ PurgeCheck /\ OnlyPurge
    \/ PurgeIter /\ OnlyPurge
    \/ PurgeReturn /\ OnlyPurge
    \/ AfterPurge
    \/ UploadCall
    \/ Validate /\ OnlyCompress
    \/ Open /\ OnlyCompress
    \/ Transpose /\ OnlyCompress
    \/ ConvertPalette /\ OnlyCompress
    \/ Resize /\ OnlyCompress
    \/ ChooseFormat /\ OnlyCompress
    \/ Flatten /\ OnlyCompress
    \/ Encode /\ OnlyCompress
    \/ Return /\ OnlyCompress
    \/ UploadBytes
    \/ UpdSet

SpecUpdate == InitUpdate /\ [][NextUpdate]_vars

---------------------------------------------------------------------------
(* Properties.                                                             *)

AlphaModes == {"RGBA", "LA", "P"}
WebpPair == <<WEBP, ".webp">>
JpegPair == <<JPEG, ".jpg">>
DecodeStages == {"open", "transpose", "convert_palette", "resize",
                 "choose_format", "flatten", "encode"}
Finished == cpc \in {"returned", "raised"}
OptionsValid ==
    /\ args.quality >= 1 /\ args.quality <= 100
    /\ (args.max_width = <<>> \/ args.max_width[1] >= 1)
Ran(stage) == \E i \in DOMAIN stages : stages[i] = stage

\* C1: format selection is total and decided by (colour mode, requested
\* format, read without regard to case): every call returns a pair; it is
\* (WEBP, ".webp") when the mode is RGBA, LA or P and JPEG is requested, and
\* when the request is neither WEBP nor JPEG; otherwise it is the requested
\* format, (JPEG, ".jpg") or (WEBP, ".webp").
C1_FormatSelection ==
    sel.out # <<>> =>
        LET req == Upper(sel.want)
        IN  /\ sel.out \in {WebpPair, JpegPair}
            /\ (sel.mode \in AlphaModes /\ req = JPEG => sel.out = WebpPair)
            /\ (req \notin {WEBP, JPEG} => sel.out = WebpPair)
            /\ (sel.mode \notin AlphaModes /\ req = JPEG => sel.out = JpegPair)
            /\ (req = WEBP => sel.out = WebpPair)

\* C1 witness: a palette image requested as JPEG came back as WEBP.
C1_Witness ==
    sel.mode = "P" /\ sel.want = JPEG /\ sel.out = WebpPair

\* C2: a call whose quality is outside 1..100, or whose max_width is set and
\* below 1, never gets past the parameter checks: it ends in ValueError and
\* no open, orientation, resize or encode statement has run, whatever the
\* source and the other options.
C2_RejectedBeforeDecoding ==
    (cpc # "idle" /\ ~OptionsValid) =>
        /\ cpc \in {"validate", "raised"}
        /\ (cpc = "raised" => cret.kind = "ValueError")
        /\ \A s \in DecodeStages : ~Ran(s)

\* C2 witness: quality 101 on an otherwise valid call was rejected.
C2_Witness ==
    /\ cpc = "raised" /\ cret.kind = "ValueError"
    /\ args.quality = 101 /\ args.src = "valid" /\ args.max_width = <<>>

\* C3: every value compress_image returns pairs "image/webp" with ".webp"
\* or "image/jpeg" with ".jpg".
C3_TypeMatchesExtension ==
    cpc = "returned" =>
        <<cret.content_type, cret.ext>> \in
            {<<"image/webp", ".webp">>, <<"image/jpeg", ".jpg">>}

\* C3 witness: an unsupported format was requested and WEBP came back.
C3_Witness ==
    /\ cpc = "returned" /\ args.output_format = PNG /\ args.mode = "L"
    /\ cret.content_type = "image/webp" /\ cret.ext = ".webp"

\* C4: an RGBA or LA source requested as JPEG comes back as image/webp with
\* extension .webp, resized or not.
C4_AlphaSafety ==
    (cpc = "returned" /\ args.mode \in {"RGBA", "LA"}
        /\ Upper(args.output_format) = JPEG) =>
        cret.content_type = "image/webp" /\ cret.ext = ".webp"

\* C4 witness: an LA source requested as JPEG was resized and returned.
C4_Witness ==
    /\ cpc = "returned" /\ args.mode = "LA" /\ args.output_format = JPEG
    /\ new_size # <<>> /\ cret.content_type = "image/webp"

\* C5: when the selected format is JPEG the buffer at the encode step, and
\* the buffer img.save was handed, is plain RGB.
C5_JpegBufferIsRgb ==
    /\ (cpc = "encode" /\ fmt = JPEG => img.mode = "RGB")
    /\ (out.fmt = JPEG => out.mode = "RGB")

\* C5 witness: a CMYK source was encoded as JPEG.
C5_Witness ==
    out.fmt = JPEG /\ args.mode = "CMYK" /\ out.mode = "RGB"

\* The width and height of the source after the orientation is applied.
OrientedWidth ==
    IF args.orientation \in 5..8 THEN args.height ELSE args.width
OrientedHeight ==
    IF args.orientation \in 5..8 THEN args.width ELSE args.height

\* round(n / d) as Python rounds: to the nearest, halves to the even.
Round(n, d) ==
    LET q == n \div d
        r == n % d
    IN  IF 2 * r < d THEN q
        ELSE IF 2 * r > d THEN q + 1
        ELSE IF q % 2 = 0 THEN q ELSE q + 1

\* C6: when the image is wider than max_width the new size is max_width by
\* round(H * max_width / W), and the new height is at least 1.
C6_ResizeRounds ==
    new_size # <<>> =>
        /\ new_size[1] = args.max_width[1]
        /\ new_size[2] =
               Round(OrientedHeight * args.max_width[1], OrientedWidth)
        /\ new_size[2] >= 1

\* C7: the resize statement never enlarges: with max_width unset or the
\* width within it, width and height are left as they are, and in every
\* case neither grows.
C7_NeverUpscales ==
    [][cpc = "resize" =>
        /\ ((args.max_width = <<>> \/ img.width <= args.max_width[1]) =>
                (img'.width = img.width /\ img'.height = img.height))
        /\ img'.width <= img.width
        /\ img'.height <= img.height]_vars

\* C7 witness: max_width was set, the image was narrower, and the resize
\* statement left its size alone.
C7_Witness ==
    /\ cpc = "choose_format"
    /\ args.max_width # <<>> /\ args.orientation = 1
    /\ args.width < args.max_width[1]
    /\ img.width = args.width /\ img.height = args.height

\* C8: with valid options, a malformed or truncated source ends in the
\* loader's failure (the one raised around Image.open), nothing is returned
\* and no statement after the open has run.
C8_BadSourceIsDecodeError ==
    (Finished /\ OptionsValid /\ args.src \in {"malformed", "truncated"}) =>
        /\ cpc = "raised"
        /\ cret.kind = "IOError: Cannot open image file"
        /\ stages = <<"validate", "open">>

Range(seq) == {seq[i] : i \in DOMAIN seq}
Count(x, seq) == Cardinality({i \in DOMAIN seq : seq[i] = x})

\* The entries of us, in order, whose iteration ended in one of keep.
Picked(us, rs, keep) ==
    LET F[i \in 0..Len(us)] ==
            IF i = 0 THEN <<>>
            ELSE IF rs[i] \in keep THEN Append(F[i - 1], us[i]) ELSE F[i - 1]
    IN  F[Len(us)]

PurgeConfigured == settings.zone_id /\ settings.api_key

\* C9 as stated: every entry of the input list is in exactly one of the
\* returned lists.
C9_EveryUrlReported ==
    ppc = "returned" =>
        \A u \in Range(urls) :
            Count(u, pret.success) + Count(u, pret.failed) = Count(u, urls)

\* C9 amended: purge_cache returns; once the zone and key are configured
\* every entry gets its iteration, whatever the earlier ones ended in; every
\* non-empty entry is in exactly one returned list, success when its request
\* succeeded and failed otherwise, and an empty entry is in neither.  With
\* the zone or key missing every entry is returned as failed.
C9_EveryNonEmptyUrlReported ==
    ppc = "returned" =>
        IF urls = <<>> THEN pret = [success |-> <<>>, failed |-> <<>>]
        ELSE IF ~PurgeConfigured
        THEN pret = [success |-> <<>>, failed |-> urls]
        ELSE /\ Len(resp) = Len(urls)
             /\ \A i \in DOMAIN urls : resp[i] = "skipped" <=> urls[i] = <<>>
             /\ pret.success = Picked(urls, resp, {"ok"})
             /\ pret.failed =
                    Picked(urls, resp, {"RequestException", "Exception"})

\* C9 witness: the first request failed, the second entry was empty, the
\* third request succeeded, and the call returned.
C9_Witness ==
    /\ ppc = "returned" /\ Len(urls) = 3
    /\ resp = <<"Exception", "skipped", "ok">>
    /\ Len(pret.success) = 1 /\ Len(pret.failed) = 1

\* C10: after update_image_in_bunny, failed or not, the record's image is in
\* storage; after a failure the fields are as they were and were not saved.
C10_RecordPointsAtStoredObject ==
    /\ (upc = "raised" =>
            /\ instance = old /\ db = old
            /\ (Truthy(instance.public_id) => instance.public_id \in storage))
    /\ (upc = "done" =>
            (Truthy(instance.public_id) => instance.public_id \in storage))

====
